---- MODULE Spec2Model ----
(***************************************************************************)
(* A model of the okabe LIFX client: the wire-format codec and Message     *)
(* (src/okabe/tools/lifx/message.py), the packet registry (packet.py) and  *)
(* the transport, discovery and Light operations (lifx.py).                *)
(*                                                                         *)
(* Bytes objects are sequences of integers 0..255.  Python's 0-based       *)
(* slices b[i:j] are written Slice(b, i, j).  A 32-bit unsigned integer    *)
(* is kept as its two 16-bit halves [hi, lo], so that the whole range      *)
(* 0..2^32-1 is representable.                                             *)
(***************************************************************************)
EXTENDS Integers, Sequences, FiniteSets, TLC

None == "None"

Min(a, b) == IF a < b THEN a ELSE b
Max(a, b) == IF a > b THEN a ELSE b

\* Python slice b[i:j] for 0 <= i, clamped to the length like Python does.
Slice(b, i, j) == SubSeq(b, i + 1, Min(j, Len(b)))
\* Python slice b[i:]
SliceFrom(b, i) == SubSeq(b, i + 1, Len(b))
\* bytes * n
Repeat(b, n) == [k \in 1..(Len(b) * n) |-> b[((k - 1) % Len(b)) + 1]]
Zeros(n) == [k \in 1..n |-> 0]

(***************************************************************************)
(* struct.pack / struct.unpack, little-endian standard sizes.              *)
(***************************************************************************)
U32(hi, lo) == [hi |-> hi, lo |-> lo]
PackB(v) == <<v>>
PackH(v) == <<v % 256, v \div 256>>
PackI(v) == PackH(v.lo) \o PackH(v.hi)
PackQ0 == Zeros(8)
UnpackH(b) == b[1] + 256 * b[2]
UnpackI(b) == U32(UnpackH(SubSeq(b, 3, 4)), UnpackH(SubSeq(b, 1, 2)))
InRangeB(v) == v \in 0..255
InRangeH(v) == v \in 0..65535
InRangeI(v) == v.hi \in 0..65535 /\ v.lo \in 0..65535

(***************************************************************************)
(* message.py                                                              *)
(***************************************************************************)
HEADER_SIZE == 36

RECURSIVE Bin(_)
\* format(value, "b"): the binary digits of value, most significant first.
Bin(v) == IF v < 2 THEN <<v>> ELSE Bin(v \div 2) \o <<v % 2>>

\* format(value, f"0>{size}b"): left-padded with "0" to at least size digits.
int_to_bits(value, size) ==
    LET b == Bin(value)
    IN  IF Len(b) >= size THEN b ELSE Zeros(size - Len(b)) \o b

RECURSIVE ParseBits(_)
\* int(s, 2)
ParseBits(s) ==
    IF Len(s) = 0 THEN 0 ELSE 2 * ParseBits(SubSeq(s, 1, Len(s) - 1)) + s[Len(s)]

FrameHeaderProtocol == 1024
FrameHeaderAddressable == 1
FrameHeaderOrigin == 0

\* FrameHeader.__bytes__ flags with the tagged and addressable bits exchanged.
FrameHeaderFlagsSwapped(tagged) ==
    ParseBits(int_to_bits(FrameHeaderOrigin, 2)
              \o int_to_bits(FrameHeaderAddressable, 1)
              \o int_to_bits(tagged, 1)
              \o int_to_bits(FrameHeaderProtocol, 12))

FrameHeaderFlags(tagged) ==
    ParseBits(int_to_bits(FrameHeaderOrigin, 2)
              \o int_to_bits(tagged, 1)
              \o int_to_bits(FrameHeaderAddressable, 1)
              \o int_to_bits(FrameHeaderProtocol, 12))

\* FrameHeader.__bytes__ without HEADER_SIZE added to the size field.
FrameHeaderBytesPayloadOnly(payload_size, source, tagged) ==
    PackH(payload_size) \o PackH(FrameHeaderFlags(tagged)) \o PackI(source)

\* FrameHeader.__bytes__
FrameHeaderBytes(payload_size, source, tagged) ==
    PackH(HEADER_SIZE + payload_size)
    \o PackH(FrameHeaderFlags(tagged))
    \o PackI(source)

\* A target is the int 0 (the broadcast sentinel) or a bytes object.
IntTarget(n) == [kind |-> "int", val |-> n]
BytesTarget(b) == [kind |-> "bytes", val |-> b]

\* FrameAddress.convert_mac_to_bytes: mac == 0 holds of the int 0 only.
convert_mac_to_bytes(mac) ==
    IF mac.kind = "int" /\ mac.val = 0 THEN Repeat(PackB(mac.val), 6) ELSE mac.val

\* FrameAddress.__bytes__ with the sequence byte before the flags byte.
FrameAddressBytesSequenceFirst(target, res, ack, sequence) ==
    convert_mac_to_bytes(target) \o PackH(0) \o PackI(U32(0, 0)) \o PackH(0)
    \o PackB(sequence)
    \o PackB(ParseBits(int_to_bits(0, 6) \o int_to_bits(ack, 1) \o int_to_bits(res, 1)))

\* FrameAddress.__bytes__
FrameAddressBytes(target, res, ack, sequence) ==
    LET reserved == 0
        encoded_mac == convert_mac_to_bytes(target) \o PackH(0)
        res_ == PackI(U32(0, 0)) \o PackH(0)
        encoded_flags ==
            PackB(ParseBits(int_to_bits(reserved, 6) \o int_to_bits(ack, 1)
                            \o int_to_bits(res, 1)))
        encoded_sequence == PackB(sequence)
    IN  encoded_mac \o res_ \o encoded_flags \o encoded_sequence

\* ProtocolHeader.__bytes__
ProtocolHeaderBytes(pkt_type) == PackQ0 \o PackH(pkt_type) \o PackH(0)

\* Message._packet before the first successful access of Message.packet.
NoPacket == [cls |-> "None"]

\* Message.__init__
NewMessage(header, packet_data) ==
    [header |-> header, packet_data |-> packet_data, packet_ |-> NoPacket]

\* The struct.pack calls of Message.pack raise struct.error outside these ranges.
PackArgsInRange(a) ==
    /\ InRangeH(HEADER_SIZE + Len(a.packet_data))
    /\ InRangeH(FrameHeaderFlags(a.tagged))
    /\ InRangeI(a.source)
    /\ InRangeB(ParseBits(int_to_bits(0, 6) \o int_to_bits(a.ack, 1)
                          \o int_to_bits(a.res, 1)))
    /\ InRangeB(a.sequence)
    /\ InRangeH(a.pkt_type)

\* Message.pack
MessagePack(a) ==
    NewMessage(FrameHeaderBytes(Len(a.packet_data), a.source, a.tagged)
               \o FrameAddressBytes(a.target, a.res, a.ack, a.sequence)
               \o ProtocolHeaderBytes(a.pkt_type),
               a.packet_data)

PackArgs(pkt_type, source, tagged, res, ack, sequence, target, packet_data) ==
    [pkt_type |-> pkt_type, source |-> source, tagged |-> tagged, res |-> res,
     ack |-> ack, sequence |-> sequence, target |-> target,
     packet_data |-> packet_data]

\* Message.unpack with its length test off by one.
UnpackRaisesBelow35(data) == Len(data) < 35

\* Message.unpack raises IncompleteHeader on this condition.
UnpackRaises(data) == Len(data) < 36

\* Message.unpack splitting one byte early.
MessageUnpackSplitAt35(data) == NewMessage(Slice(data, 0, 35), SliceFrom(data, 35))

\* Message.unpack, when it does not raise.
MessageUnpack(data) == NewMessage(Slice(data, 0, 36), SliceFrom(data, 36))

\* Message.packed_msg
packed_msg(m) == m.header \o m.packet_data

\* Message accessors; m[i] and m[i:j] index the header (Message.__getitem__).
size(m) == UnpackH(Slice(m.header, 0, 2))
protocol(m) == UnpackH(Slice(m.header, 2, 4)) % 4096
addressable(m) == ((m.header[4] \div 16) % 2) # 0
tagged(m) == ((m.header[4] \div 32) % 2) # 0
source(m) == UnpackI(Slice(m.header, 4, 8))
target_hex(m) == Slice(Slice(m.header, 8, 16), 0, 6)
\* response_required reading bit 2 of byte 22.
response_required_bit2(m) == ((m.header[23] \div 4) % 2) # 0
response_required(m) == (m.header[23] % 2) # 0
ack_required(m) == ((m.header[23] \div 2) % 2) # 0
sequence(m) == m.header[24]
pkt_type(m) == UnpackH(Slice(m.header, 32, 34))

HexDigits == <<"0", "1", "2", "3", "4", "5", "6", "7", "8", "9",
               "a", "b", "c", "d", "e", "f">>
RECURSIVE hexlify(_)
hexlify(b) ==
    IF Len(b) = 0 THEN <<>>
    ELSE <<HexDigits[(b[1] \div 16) + 1], HexDigits[(b[1] % 16) + 1]>>
         \o hexlify(Tail(b))
\* Message.target
target(m) == hexlify(target_hex(m))

(***************************************************************************)
(* packet.py                                                               *)
(***************************************************************************)
\* SetPower.__init__
SetPower(data) == [cls |-> "SetPower", level |-> Slice(data, 0, 2)]
\* StateService.__init__
StateService(data) == [cls |-> "StateService", bytes |-> data]

\* PACKETS: the registry, pkt_type -> packet class.
PACKETS == (21 :> "SetPower") @@ (3 :> "StateService")

\* PACKETS.get(k, None)
PacketsGet(k) == IF k \in DOMAIN PACKETS THEN PACKETS[k] ELSE None

\* t(data=...) for a registered class t.
Construct(t, data) == IF t = "SetPower" THEN SetPower(data) ELSE StateService(data)

Digits == <<"0", "1", "2", "3", "4", "5", "6", "7", "8", "9">>
RECURSIVE DecStr(_)
\* f"{n}" for a non-negative int: its decimal digits.
DecStr(n) == IF n < 10 THEN <<Digits[n + 1]>> ELSE DecStr(n \div 10) \o <<Digits[(n % 10) + 1]>>

NoExc == [type |-> "None"]
Raised(type, arg) == [type |-> type, arg |-> arg]

\* Message.packet without the cache, dropping the payload when it raises.
PacketAccessForgetful(m) ==
    LET t == PacketsGet(pkt_type(m))
    IN  IF t = None
        THEN [msg |-> [m EXCEPT !.packet_data = <<>>],
              exc |-> Raised("UnsupportedPacketType", DecStr(pkt_type(m))),
              ret |-> NoPacket]
        ELSE [msg |-> m, exc |-> NoExc, ret |-> Construct(t, m.packet_data)]

\* Message.packet decoding on every access and keeping nothing.
PacketAccessNoCache(m) ==
    LET t == PacketsGet(pkt_type(m))
    IN  IF t = None
        THEN [msg |-> m,
              exc |-> Raised("UnsupportedPacketType", DecStr(pkt_type(m))),
              ret |-> NoPacket]
        ELSE [msg |-> m, exc |-> NoExc, ret |-> Construct(t, m.packet_data)]

\* Message.packet (a property): the Message afterwards, what is raised, what is returned.
PacketAccess(m) ==
    IF m.packet_ = NoPacket
    THEN LET t == PacketsGet(pkt_type(m))
         IN  IF t = None
             THEN [msg |-> m,
                   exc |-> Raised("UnsupportedPacketType", DecStr(pkt_type(m))),
                   ret |-> NoPacket]
             ELSE [msg |-> [m EXCEPT !.packet_ = Construct(t, m.packet_data)],
                   exc |-> NoExc,
                   ret |-> Construct(t, m.packet_data)]
    ELSE [msg |-> m, exc |-> NoExc, ret |-> m.packet_]

(***************************************************************************)
(* lifx.py: network interfaces and broadcast addresses                     *)
(***************************************************************************)
DEVICE_PORT == 56700
RecvBufSize == 128

\* An ifaddr IP of an adapter.
IPv4(ip, network_prefix) == [is_IPv4 |-> TRUE, ip |-> ip, network_prefix |-> network_prefix]
IPv6Addr == [is_IPv4 |-> FALSE, ip |-> <<0, 0, 0, 0>>, network_prefix |-> 64]

RECURSIVE Pow2(_)
Pow2(n) == IF n = 0 THEN 1 ELSE 2 * Pow2(n - 1)

\* IPv4Interface(f"{ip}/{prefix}").network.broadcast_address: every host bit set.
BroadcastAddress(ip, prefix) ==
    [i \in 1..4 |->
        LET hostbits == Max(0, Min(8, 8 * i - prefix))
        IN  ip[i] - (ip[i] % Pow2(hostbits)) + Pow2(hostbits) - 1]

RECURSIVE BroadcastOfIps(_)
\* The inner loop of get_broadcast_addresses over one adapter's ips.
BroadcastOfIps(ips) ==
    IF Len(ips) = 0 THEN <<>>
    ELSE LET addr == Head(ips)
         IN  (IF ~addr.is_IPv4 THEN <<>>
              ELSE IF addr.ip = <<127, 0, 0, 1>> THEN <<>>
              ELSE <<BroadcastAddress(addr.ip, addr.network_prefix)>>)
             \o BroadcastOfIps(Tail(ips))

RECURSIVE get_broadcast_addresses(_)
\* get_broadcast_addresses, given what ifaddr.get_adapters() returns.
get_broadcast_addresses(adapterList) ==
    IF Len(adapterList) = 0 THEN <<>>
    ELSE BroadcastOfIps(Head(adapterList)) \o get_broadcast_addresses(Tail(adapterList))

\* IPv4Address.exploded: dotted decimal, as a string of characters.
exploded(addr) ==
    DecStr(addr[1]) \o <<".">> \o DecStr(addr[2]) \o <<".">>
    \o DecStr(addr[3]) \o <<".">> \o DecStr(addr[4])

\* str.startswith
startswith(str, prefix) ==
    Len(str) >= Len(prefix) /\ SubSeq(str, 1, Len(prefix)) = prefix

\* The filter of the loop in Lifx.send.
Qualifies(addr) == startswith(exploded(addr), <<"1", "9", "2">>)

(***************************************************************************)
(* lifx.py: Lifx and Light                                                 *)
(***************************************************************************)
\* Light.__init__
Light(src, hex, host, port) ==
    [source |-> src, target_hex |-> hex, host |-> host, port |-> port]

\* The Message Lifx.discover packs.
DiscoverMessage ==
    MessagePack(PackArgs(2, U32(0, 2), 1, 1, 0, 0, IntTarget(0), <<>>))

\* The loop of Lifx.discover reading the target two bytes too far.
DiscoverLightsWrongOffset(msgs) ==
    [i \in 1..Len(msgs) |->
        Light(source(msgs[i].message), Slice(msgs[i].message.header, 10, 16),
              msgs[i].host, msgs[i].port)]

RECURSIVE DiscoverLights(_)
\* The loop of Lifx.discover over the tuples send returned.
DiscoverLights(msgs) ==
    IF Len(msgs) = 0 THEN <<>>
    ELSE <<Light(source(Head(msgs).message), target_hex(Head(msgs).message),
                 Head(msgs).host, Head(msgs).port)>>
         \o DiscoverLights(Tail(msgs))

\* The Message Light.get_power packs.
GetPowerMessage(light, res, ack) ==
    MessagePack(PackArgs(20, U32(0, 2), 0, res, ack, 0,
                         BytesTarget(light.target_hex), <<>>))

\* set_power packing its Message as a tagged one.
SetPowerMessageTagged(light, on) ==
    LET level == IF on THEN 65535 ELSE 0
    IN  MessagePack(PackArgs(21, U32(0, 2), 1, 1, 0, 0,
                             BytesTarget(light.target_hex), PackH(level)))

\* The Message Light.set_power packs.
SetPowerMessage(light, on) ==
    LET level == IF on THEN 65535 ELSE 0
    IN  MessagePack(PackArgs(21, U32(0, 2), 0, 1, 0, 0,
                             BytesTarget(light.target_hex), PackH(level)))

\* The Message Light.get_color packs.
GetColorMessage(light) ==
    MessagePack(PackArgs(101, U32(0, 2), 0, 0, 0, 0,
                         BytesTarget(light.target_hex), <<>>))

\* A float argument that is a ratio of two ints, such as 30 / 100.
Ratio(num, den) == [num |-> num, den |-> den]

\* round(n / d) for n >= 0, d > 0: to the nearest int, a tie to the even one.
PyRound(n, d) ==
    LET q == n \div d
        r == n % d
    IN  IF 2 * r < d THEN q
        ELSE IF 2 * r > d THEN q + 1
        ELSE IF q % 2 = 0 THEN q ELSE q + 1

\* int(x / d) for x >= 0: the float quotient truncated.
TruncDiv(x, d) == x \div d

\* Light.set_color: int(round(0x10000 * hue) / 360) % 0x10000, hue an int.
HueField(hue) == TruncDiv(PyRound(65536 * hue, 1), 360) % 65536

\* Light.set_color: int(round(0xFFFF * x)) for x = num / den.
UnitField(x) == PyRound(65535 * x.num, x.den)

\* The set_color payload with the reserved byte left out.
SetColorPayloadNoReserved(hue, saturation, brightness, kelvin, duration) ==
    PackH(HueField(hue)) \o PackH(UnitField(saturation))
    \o PackH(UnitField(brightness)) \o PackH(kelvin) \o PackI(duration)

\* Light.set_color: struct.pack("<BHHHHI", 0, hue, saturation, brightness, kelvin, duration)
SetColorPayload(hue, saturation, brightness, kelvin, duration) ==
    PackB(0) \o PackH(HueField(hue)) \o PackH(UnitField(saturation))
    \o PackH(UnitField(brightness)) \o PackH(kelvin) \o PackI(duration)

\* The Message Light.set_color packs.
SetColorMessage(light, hue, saturation, brightness, kelvin, duration) ==
    MessagePack(PackArgs(102, U32(0, 2), 0, 1, 0, 0, BytesTarget(light.target_hex),
                         SetColorPayload(hue, saturation, brightness, kelvin, duration)))

(***************************************************************************)
(* lifx.py: the color state codec.  A str is a sequence of code points.    *)
(***************************************************************************)
\* str.encode("utf-8") of one code point.
Utf8OfCodePoint(c) ==
    IF c < 128 THEN <<c>>
    ELSE IF c < 2048 THEN <<192 + (c \div 64), 128 + (c % 64)>>
    ELSE IF c < 65536
         THEN <<224 + (c \div 4096), 128 + ((c \div 64) % 64), 128 + (c % 64)>>
    ELSE <<240 + (c \div 262144), 128 + ((c \div 4096) % 64),
           128 + ((c \div 64) % 64), 128 + (c % 64)>>

RECURSIVE Utf8Encode(_)
\* str.encode("utf-8")
Utf8Encode(str) ==
    IF Len(str) = 0 THEN <<>> ELSE Utf8OfCodePoint(Head(str)) \o Utf8Encode(Tail(str))

IsCont(b) == b \in 128..191

\* The number of bytes of the well-formed UTF-8 sequence b starts with, 0 if none.
Utf8SeqLen(b) ==
    IF Len(b) = 0 THEN 0
    ELSE IF b[1] < 128 THEN 1
    ELSE IF b[1] \in 194..223 /\ Len(b) >= 2 /\ IsCont(b[2]) THEN 2
    ELSE IF b[1] \in 224..239 /\ Len(b) >= 3 /\ IsCont(b[2]) /\ IsCont(b[3])
            /\ (b[1] = 224 => b[2] >= 160) /\ (b[1] = 237 => b[2] <= 159) THEN 3
    ELSE IF b[1] \in 240..244 /\ Len(b) >= 4 /\ IsCont(b[2]) /\ IsCont(b[3])
            /\ IsCont(b[4]) /\ (b[1] = 240 => b[2] >= 144)
            /\ (b[1] = 244 => b[2] <= 143) THEN 4
    ELSE 0

CodePointOf(b, n) ==
    IF n = 1 THEN b[1]
    ELSE IF n = 2 THEN (b[1] - 192) * 64 + (b[2] - 128)
    ELSE IF n = 3 THEN (b[1] - 224) * 4096 + (b[2] - 128) * 64 + (b[3] - 128)
    ELSE (b[1] - 240) * 262144 + (b[2] - 128) * 4096 + (b[3] - 128) * 64 + (b[4] - 128)

RECURSIVE Utf8Valid(_)
\* bytes.decode("utf-8") does not raise UnicodeDecodeError.
Utf8Valid(b) ==
    Len(b) = 0
    \/ (Utf8SeqLen(b) > 0 /\ Utf8Valid(SubSeq(b, Utf8SeqLen(b) + 1, Len(b))))

RECURSIVE Utf8Decode(_)
\* bytes.decode("utf-8") of well-formed bytes.
Utf8Decode(b) ==
    IF Len(b) = 0 THEN <<>>
    ELSE <<CodePointOf(b, Utf8SeqLen(b))>>
         \o Utf8Decode(SubSeq(b, Utf8SeqLen(b) + 1, Len(b)))

RECURSIVE UpToZero(_)
\* label_bytes.split(b"\x00")[0]
UpToZero(b) ==
    IF Len(b) = 0 \/ b[1] = 0 THEN <<>> ELSE <<b[1]>> \o UpToZero(Tail(b))

\* bytes.ljust(n, b"\x00")
LJust(b, n) == IF Len(b) >= n THEN b ELSE b \o Zeros(n - Len(b))

\* encode_color_state: struct.pack("<HHHHH2xH32s8x", hue, saturation,
\* brightness, kelvin, 0, power_value, encoded_label)
encode_color_state(hue, saturation, brightness, kelvin, power, label) ==
    LET encoded0 == Utf8Encode(label)
        encoded1 == IF Len(encoded0) > 31 THEN Slice(encoded0, 0, 31) ELSE encoded0
        encoded_label == LJust(encoded1, 32)
        power_value == IF power THEN 65535 ELSE 0
    IN  PackH(hue) \o PackH(saturation) \o PackH(brightness) \o PackH(kelvin)
        \o PackH(0) \o Zeros(2) \o PackH(power_value)
        \o Slice(encoded_label, 0, 32) \o Zeros(8)

\* decode_color_state's length test one byte short.
DecodeTooShortBelow51(data) == Len(data) < 51

\* decode_color_state raises ValueError("Not enough data ...") on this condition.
DecodeTooShort(data) == Len(data) < 52

\* struct.unpack("<HHHH2xH32s8x", data) raises struct.error unless len(data) == 52.
DecodeStructError(data) == Len(data) # 52

\* The fields struct.unpack("<HHHH2xH32s8x", data) yields for 52 bytes.
DecodeFields(data) ==
    [hue |-> UnpackH(Slice(data, 0, 2)),
     saturation |-> UnpackH(Slice(data, 2, 4)),
     brightness |-> UnpackH(Slice(data, 4, 6)),
     kelvin |-> UnpackH(Slice(data, 6, 8)),
     power |-> UnpackH(Slice(data, 10, 12)),
     label_bytes |-> Slice(data, 12, 44)]

NoState == [hue |-> -1]

\* decode_color_state: what it raises ("None" if nothing) and what it returns.
decode_color_state(data) ==
    IF DecodeTooShort(data) THEN [exc |-> "ValueError", state |-> NoState]
    ELSE IF DecodeStructError(data) THEN [exc |-> "struct.error", state |-> NoState]
    ELSE LET f == DecodeFields(data)
             raw == UpToZero(f.label_bytes)
         IN  IF ~Utf8Valid(raw) THEN [exc |-> "UnicodeDecodeError", state |-> NoState]
             ELSE [exc |-> "None",
                   state |-> [hue |-> f.hue, saturation |-> f.saturation,
                              brightness |-> f.brightness, kelvin |-> f.kelvin,
                              power |-> f.power, label |-> Utf8Decode(raw)]]

\* normalize_color dividing by 65536.
normalize_color_65536(state) ==
    [state EXCEPT !.hue = PyRound(state.hue * 360, 65536),
                  !.saturation = PyRound(state.saturation * 100, 65536),
                  !.brightness = PyRound(state.brightness * 100, 65536),
                  !.power = (state.power # 0)]

\* normalize_color scaling the hue to 100 like the other two.
normalize_color_hue100(state) ==
    [state EXCEPT !.hue = PyRound(state.hue * 100, 65535),
                  !.saturation = PyRound(state.saturation * 100, 65535),
                  !.brightness = PyRound(state.brightness * 100, 65535),
                  !.power = (state.power # 0)]

\* normalize_color: round((x / 65535) * 360) and so on; bool(power).
normalize_color(state) ==
    [state EXCEPT !.hue = PyRound(state.hue * 360, 65535),
                  !.saturation = PyRound(state.saturation * 100, 65535),
                  !.brightness = PyRound(state.brightness * 100, 65535),
                  !.power = (state.power # 0)]

(***************************************************************************)
(* State.  The c* variables are the codec caller's; the others are the     *)
(* transport's: the machine's network interfaces, the sockets ever         *)
(* created, and for each calling thread the locals of the operation it is  *)
(* in.                                                                     *)
(***************************************************************************)
VARIABLES cpc, cargs, cmsg, cdata, cum, cexc, cret, nacc,
          adapters, socks, lights, pc, op, msg, sock, messages,
          broadcast_addresses, idx, log, result,
          kpc, kargs, kmsg, kbuf, kdec, knorm,
          hpc, hargs, hdr, hprev, hbit,
          npc, tool_map, tools, nmessages, completion, ncalls, nret, nreq

codecVars == <<cpc, cargs, cmsg, cdata, cum, cexc, cret, nacc>>
transportVars == <<adapters, socks, lights, pc, op, msg, sock, messages,
                   broadcast_addresses, idx, log, result>>
\* The color caller's: its position, the arguments of its call, the Message
\* set_color packed, the color state buffer, what decode_color_state gave
\* and what normalize_color returned.
colorVars == <<kpc, kargs, kmsg, kbuf, kdec, knorm>>
\* The header reader's: its position, the pack arguments the header it holds
\* came from (if it was packed), the header, the header before one bit of it
\* was flipped, and the bit.
headerVars == <<hpc, hargs, hdr, hprev, hbit>>
\* The agent's: the position of run, Nucleus._tool_map and Nucleus._tools, the
\* messages of run, the completion chat returned last, the tool calls made
\* so far, what run returned and the number of chat requests issued.
nucleusVars == <<npc, tool_map, tools, nmessages, completion, ncalls, nret, nreq>>
vars == <<cpc, cargs, cmsg, cdata, cum, cexc, cret, nacc,
          adapters, socks, lights, pc, op, msg, sock, messages,
          broadcast_addresses, idx, log, result,
          kpc, kargs, kmsg, kbuf, kdec, knorm,
          hpc, hargs, hdr, hprev, hbit,
          npc, tool_map, tools, nmessages, completion, ncalls, nret, nreq>>

(***************************************************************************)
(* The codec as a state machine: a caller packs a Message, hands the       *)
(* packed bytes (or a truncation of them) to Message.unpack, and asks the  *)
(* unpacked Message for its typed packet.                                  *)
(***************************************************************************)
MaxPayloadLen == 2
MaxAccess == 2

PayloadByteValues == {0, 255}
Payloads == UNION {[1..n -> PayloadByteValues] : n \in 0..MaxPayloadLen}

MacA == <<208, 115, 213, 1, 2, 3>>
MacB == <<208, 115, 213, 255, 0, 128>>

PktTypes == {2, 3, 21, 999, 65535}
Sources == {U32(0, 0), U32(0, 2), U32(65535, 65535)}
Bits == {0, 1}
\* 256 is outside "<B": struct.pack raises.
SequenceArgs == {0, 255, 256}
Targets == {IntTarget(0), BytesTarget(MacA), BytesTarget(MacB)}

AllPackArgs ==
    {PackArgs(p, s, tg, r, a, sq, t, d) :
        p \in PktTypes, s \in Sources, tg \in Bits, r \in Bits, a \in Bits,
        sq \in SequenceArgs, t \in Targets, d \in Payloads}

NoMessage == [header |-> <<>>, packet_data |-> <<>>, packet_ |-> NoPacket]
NoArgs == [pkt_type |-> -1]

InitCodec ==
    /\ cpc = "start"
    /\ cargs = NoArgs
    /\ cmsg = NoMessage
    /\ cdata = <<>>
    /\ cum = NoMessage
    /\ cexc = NoExc
    /\ cret = NoPacket
    /\ nacc = 0

\* A caller calls Message.pack.
CodecPack ==
    /\ cpc = "start"
    /\ \E a \in AllPackArgs :
        /\ cargs' = a
        /\ IF PackArgsInRange(a)
           THEN /\ cmsg' = MessagePack(a)
                /\ cpc' = "packed"
                /\ cexc' = NoExc
           ELSE /\ cmsg' = cmsg
                /\ cpc' = "raised"
                /\ cexc' = Raised("struct.error", <<>>)
    /\ UNCHANGED <<cdata, cum, cret, nacc>>
    /\ UNCHANGED <<transportVars, colorVars, headerVars, nucleusVars>>

\* The bytes handed to unpack: the packed message or a prefix of it.
DataLens(m) == {0, 10, 35, 36, Len(packed_msg(m))}

CodecData ==
    /\ cpc = "packed"
    /\ \E k \in DataLens(cmsg) :
        cdata' = Slice(packed_msg(cmsg), 0, k)
    /\ cpc' = "have_data"
    /\ UNCHANGED <<cargs, cmsg, cum, cexc, cret, nacc>>
    /\ UNCHANGED <<transportVars, colorVars, headerVars, nucleusVars>>

\* A caller calls Message.unpack(cdata).
CodecUnpack ==
    /\ cpc = "have_data"
    /\ IF UnpackRaises(cdata)
       THEN /\ cexc' = Raised("IncompleteHeader", <<>>)
            /\ cpc' = "raised"
            /\ cum' = cum
       ELSE /\ cum' = MessageUnpack(cdata)
            /\ cpc' = "unpacked"
            /\ cexc' = NoExc
    /\ UNCHANGED <<cargs, cmsg, cdata, cret, nacc>>
    /\ UNCHANGED <<transportVars, colorVars, headerVars, nucleusVars>>

\* A caller reads the packet property of the unpacked Message.
CodecPacket ==
    /\ cpc = "unpacked"
    /\ nacc < MaxAccess
    /\ LET r == PacketAccess(cum)
       IN  /\ cum' = r.msg
           /\ cexc' = r.exc
           /\ cret' = r.ret
    /\ nacc' = nacc + 1
    /\ UNCHANGED <<cpc, cargs, cmsg, cdata>>
    /\ UNCHANGED <<transportVars, colorVars, headerVars, nucleusVars>>

NextCodec == CodecPack \/ CodecData \/ CodecUnpack \/ CodecPacket

(***************************************************************************)
(* The color functions as a state machine: a caller builds the set_color   *)
(* Message, or encodes a color state or receives one from a device, hands  *)
(* the buffer to decode_color_state, and normalizes a state.               *)
(***************************************************************************)
\* Hues in degrees and saturations in hundredths, as apps/text2LIFXcolor.py gives them.
HueDegrees == 0..360
Percents == 0..100
SetColorRest ==
    {[kelvin |-> 3500, duration |-> U32(0, 0)],
     [kelvin |-> 9000, duration |-> U32(1, 1000)]}
ColorLights == {Light(U32(0, 2), MacA, "192.168.1.10", DEVICE_PORT),
                Light(U32(0, 2), MacB, "192.168.1.11", DEVICE_PORT)}

Ascii(n) == [i \in 1..n |-> 65 + (i % 26)]
\* Labels: empty, short, 31 and 32 and 40 bytes long, 32 bytes with a two-byte
\* character across the cut, two-byte characters only, and one with a NUL.
LabelSamples ==
    {<<>>, <<76, 97, 109, 112>>, Ascii(31), Ascii(32), Ascii(40),
     Ascii(30) \o <<233>>, [i \in 1..16 |-> 233], <<76, 0, 109>>}

EncodeInputs ==
    {[hue |-> h, saturation |-> s, brightness |-> b, kelvin |-> k,
      power |-> p, label |-> l] :
        h \in {0, 32768, 65535}, s \in {0, 65535}, b \in {1, 65535},
        k \in {2500, 3500}, p \in BOOLEAN, l \in LabelSamples}

\* A LightState payload as a device sends it, which decode_color_state reads.
DeviceColorState(hue, saturation, brightness, kelvin, power, label_bytes) ==
    PackH(hue) \o PackH(saturation) \o PackH(brightness) \o PackH(kelvin)
    \o Zeros(2) \o PackH(power) \o LJust(label_bytes, 32) \o Zeros(8)

\* Label fields of a device: well-formed ones, full ones, and bytes that are not UTF-8.
DeviceLabels ==
    {<<>>, <<76, 97, 109, 112>>, Ascii(32), <<195, 169, 33>>, <<255, 65>>, <<195>>}

DeviceBuffers ==
    {DeviceColorState(h, 65535 - h, h, 3500, p, l) :
        h \in {0, 32768, 65535}, p \in {0, 1, 65535}, l \in DeviceLabels}

\* What reaches decode_color_state: a device buffer, cut short or with bytes after it.
BufferLens == {0, 1, 51, 52, 53, 54}
ReceivedBuffers ==
    {Slice(b \o <<7, 7>>, 0, n) : b \in DeviceBuffers, n \in BufferLens}

\* States given to normalize_color: every raw value of a 16-bit field.
RawStates ==
    {[hue |-> v, saturation |-> v, brightness |-> 65535 - v, kelvin |-> 3500,
      power |-> p, label |-> <<76, 97, 109, 112>>] :
        v \in 0..65535, p \in {0, 65535}}

NoDecode == [exc |-> "not called", state |-> NoState]

InitColor ==
    /\ kpc = "start"
    /\ kargs = NoArgs
    /\ kmsg = NoMessage
    /\ kbuf = <<>>
    /\ kdec = NoDecode
    /\ knorm = NoState

\* A caller calls Light.set_color: the payload and the Message it hands to send.
ColorSetColor ==
    /\ kpc = "start"
    /\ \E l \in ColorLights, h \in HueDegrees, s \in Percents, r \in SetColorRest :
        /\ kargs' = [light |-> l, hue |-> h, saturation |-> Ratio(s, 100),
                     brightness |-> Ratio(100 - s, 100), kelvin |-> r.kelvin,
                     duration |-> r.duration]
        /\ kmsg' = SetColorMessage(l, h, Ratio(s, 100), Ratio(100 - s, 100),
                                   r.kelvin, r.duration)
    /\ kpc' = "set_color"
    /\ UNCHANGED <<kbuf, kdec, knorm>>
    /\ UNCHANGED <<codecVars, transportVars, headerVars, nucleusVars>>

\* A caller calls encode_color_state.
ColorEncode ==
    /\ kpc = "start"
    /\ \E a \in EncodeInputs :
        /\ kargs' = a
        /\ kbuf' = encode_color_state(a.hue, a.saturation, a.brightness, a.kelvin,
                                      a.power, a.label)
    /\ kpc' = "encoded"
    /\ UNCHANGED <<kmsg, kdec, knorm>>
    /\ UNCHANGED <<codecVars, transportVars, headerVars, nucleusVars>>

\* A caller takes the packet_data of a device's response.
ColorReceive ==
    /\ kpc = "start"
    /\ \E b \in ReceivedBuffers : kbuf' = b
    /\ kpc' = "received"
    /\ UNCHANGED <<kargs, kmsg, kdec, knorm>>
    /\ UNCHANGED <<codecVars, transportVars, headerVars, nucleusVars>>

\* A caller calls decode_color_state(kbuf).
ColorDecode ==
    /\ kpc \in {"encoded", "received"}
    /\ kdec' = decode_color_state(kbuf)
    /\ kpc' = IF kpc = "encoded" THEN "encoded_decoded" ELSE "received_decoded"
    /\ UNCHANGED <<kargs, kmsg, kbuf, knorm>>
    /\ UNCHANGED <<codecVars, transportVars, headerVars, nucleusVars>>

\* A caller calls normalize_color on a state: one it decoded, or any other.
ColorNormalize ==
    /\ kpc \in {"start", "received_decoded"}
    /\ \E st \in IF kpc = "start" THEN RawStates
                 ELSE IF kdec.exc = "None" THEN {kdec.state} ELSE {} :
        /\ kargs' = st
        /\ knorm' = normalize_color(st)
    /\ kpc' = "normalized"
    /\ UNCHANGED <<kmsg, kbuf, kdec>>
    /\ UNCHANGED <<codecVars, transportVars, headerVars, nucleusVars>>

NextColor == ColorSetColor \/ ColorEncode \/ ColorReceive \/ ColorDecode \/ ColorNormalize

(***************************************************************************)
(* The header flags as a state machine: a reader holds the 36-byte header  *)
(* of an unpacked Message, then one bit of the header changes.             *)
(***************************************************************************)
\* The pack calls whose header a reader can hold.
HeaderPackArgs ==
    {PackArgs(p, U32(0, 2), tg, r, a, sq, BytesTarget(MacA), <<>>) :
        p \in {2, 21}, tg \in Bits, r \in Bits, a \in Bits, sq \in {0, 255}}

\* Headers no pack produces.
RawHeaders == {Zeros(36), Repeat(<<255>>, 36), Repeat(<<170>>, 36), Repeat(<<85>>, 36)}

\* Bit k (0 the least significant) of byte b.
BitOf(b, k) == (b \div Pow2(k)) % 2

\* The byte b with bit k inverted.
FlipBit(b, k) == IF BitOf(b, k) = 1 THEN b - Pow2(k) ELSE b + Pow2(k)

InitHeader ==
    /\ hpc = "start"
    /\ hargs = NoArgs
    /\ hdr = NoMessage
    /\ hprev = NoMessage
    /\ hbit = [byte |-> -1, bit |-> -1]

\* Message.unpack of a 36-byte datagram, the packed_msg of a pack call or
\* other bytes: the reader holds its Message.
HeaderUnpack ==
    /\ hpc = "start"
    /\ \/ \E a \in HeaderPackArgs :
            /\ hargs' = a
            /\ hdr' = MessageUnpack(packed_msg(MessagePack(a)))
       \/ \E h \in RawHeaders :
            /\ hargs' = NoArgs
            /\ hdr' = MessageUnpack(h)
    /\ hpc' = "unpacked"
    /\ UNCHANGED <<hprev, hbit>>
    /\ UNCHANGED <<codecVars, transportVars, colorVars, nucleusVars>>

\* The same datagram with one bit different is unpacked.
HeaderFlip ==
    /\ hpc = "unpacked"
    /\ \E i \in 0..35, k \in 0..7 :
        /\ hbit' = [byte |-> i, bit |-> k]
        /\ hdr' = MessageUnpack([hdr.header EXCEPT ![i + 1] = FlipBit(hdr.header[i + 1], k)])
    /\ hprev' = hdr
    /\ hpc' = "flipped"
    /\ UNCHANGED hargs
    /\ UNCHANGED <<codecVars, transportVars, colorVars, nucleusVars>>

NextHeader == HeaderUnpack \/ HeaderFlip

(***************************************************************************)
(* nucleus.py: the agent as a state machine.  Tools are registered, then   *)
(* run loops: a chat request, the completion appended as the assistant's   *)
(* message, and the match on the completion's content.                     *)
(***************************************************************************)
MaxTools == 2
MaxTurns == 2

\* add_tool_option calls: a name and the callable registered under it.
ToolOptions ==
    {[name |-> "update_light", callable |-> "update_light_v1"],
     [name |-> "update_light", callable |-> "update_light_v2"],
     [name |-> "get_light", callable |-> "get_light"]}

\* Content blocks of a completion.
TextBlock(text) == [type |-> "text", text |-> text]
ToolUseBlock(id, name) == [type |-> "tool_use", id |-> id, name |-> name]

ToolUseIds == {"toolu_1", "toolu_2"}
\* Names the model asks for: registered ones and one nobody registered.
ToolUseNames == {"update_light", "reboot"}
ToolUses == {ToolUseBlock(i, n) : i \in ToolUseIds, n \in ToolUseNames}

\* completion.content: the shapes run handles and shapes it does not.
Completions ==
    {<<TextBlock("done")>>}
    \cup {<<u>> : u \in ToolUses}
    \cup {<<TextBlock("working"), u>> : u \in ToolUses}
    \cup {<<>>,
          <<TextBlock("first"), TextBlock("second")>>,
          <<ToolUseBlock("toolu_1", "update_light"), TextBlock("after")>>,
          <<TextBlock("both"), ToolUseBlock("toolu_1", "update_light"),
            ToolUseBlock("toolu_2", "update_light")>>}

\* What a tool returns: strings, as the tools of the apps do.
ToolResults == {<<"o", "k">>, <<>>}

\* json.dumps of a str without characters to escape.
JsonDumps(str) == <<"\"">> \o str \o <<"\"">>

\* get_seed_prompt (the task is not modelled).
SeedPrompt == <<[role |-> "user", content |-> "seed"]>>

\* The user message run appends after a tool call.
ToolResultMessage(id, tool_result) ==
    [role |-> "user",
     content |-> <<[type |-> "tool_result", tool_use_id |-> id,
                    content |-> JsonDumps(tool_result)]>>]

\* The match statement of run: which case takes the content.
MatchCase(content) ==
    IF Len(content) = 2 /\ content[1].type = "text" /\ content[2].type = "tool_use"
    THEN "text_tool"
    ELSE IF Len(content) = 1 /\ content[1].type = "text" THEN "text"
    ELSE IF Len(content) = 1 /\ content[1].type = "tool_use" THEN "tool"
    ELSE "other"

\* The tool-use block of a completion the match handles as a tool call.
ToolBlock(content) == content[Len(content)]

NoReturn == [kind |-> "none"]

InitNucleus ==
    /\ npc = "setup"
    /\ tool_map = << >>
    /\ tools = <<>>
    /\ nmessages = <<>>
    /\ completion = <<>>
    /\ ncalls = <<>>
    /\ nret = NoReturn
    /\ nreq = 0

\* add_tool_option: self._tool_map[name] = callable; self._tools.append(...)
AddToolOption ==
    /\ npc = "setup"
    /\ Len(tools) < MaxTools
    /\ \E o \in ToolOptions :
        /\ tool_map' = [n \in DOMAIN tool_map \cup {o.name} |->
                          IF n = o.name THEN o.callable ELSE tool_map[n]]
        /\ tools' = Append(tools, o.name)
    /\ UNCHANGED <<npc, nmessages, completion, ncalls, nret, nreq>>
    /\ UNCHANGED <<codecVars, transportVars, colorVars, headerVars>>

\* run up to the loop: tools = self.compile_tools(); messages = self.get_seed_prompt()
RunStart ==
    /\ npc = "setup"
    /\ nmessages' = SeedPrompt
    /\ npc' = "chat"
    /\ UNCHANGED <<tool_map, tools, completion, ncalls, nret, nreq>>
    /\ UNCHANGED <<codecVars, transportVars, colorVars, headerVars>>

\* run: completion = chat(...); messages.append(the assistant's message)
Chat ==
    /\ npc = "chat"
    /\ nreq < MaxTurns
    /\ \E c \in Completions :
        /\ completion' = c
        /\ nmessages' = Append(nmessages, [role |-> "assistant", content |-> c])
    /\ nreq' = nreq + 1
    /\ npc' = "match"
    /\ UNCHANGED <<tool_map, tools, ncalls, nret>>
    /\ UNCHANGED <<codecVars, transportVars, colorVars, headerVars>>

\* run: chat raises (the request fails); nothing in run catches it.
ChatRaises ==
    /\ npc = "chat"
    /\ nreq < MaxTurns
    /\ nreq' = nreq + 1
    /\ npc' = "raised"
    /\ UNCHANGED <<tool_map, tools, nmessages, completion, ncalls, nret>>
    /\ UNCHANGED <<codecVars, transportVars, colorVars, headerVars>>

\* The tool cases of run going on to the next request without a tool_result.
MatchToolNoResult ==
    /\ npc = "match"
    /\ MatchCase(completion) \in {"text_tool", "tool"}
    /\ LET b == ToolBlock(completion)
       IN  IF b.name \notin DOMAIN tool_map
           THEN /\ npc' = "raised"
                /\ UNCHANGED <<nmessages, ncalls>>
           ELSE /\ ncalls' = Append(ncalls, [callable |-> tool_map[b.name],
                                            name |-> b.name, id |-> b.id])
                /\ npc' = "chat"
                /\ UNCHANGED nmessages
    /\ UNCHANGED <<tool_map, tools, completion, nret, nreq>>
    /\ UNCHANGED <<codecVars, transportVars, colorVars, headerVars>>

\* run: the cases with a tool-use block: the tool is looked up (KeyError if
\* it is not registered) and called; it returns or raises; the result is
\* appended as a tool_result.
MatchTool ==
    /\ npc = "match"
    /\ MatchCase(completion) \in {"text_tool", "tool"}
    /\ LET b == ToolBlock(completion)
       IN  IF b.name \notin DOMAIN tool_map
           THEN /\ npc' = "raised"
                /\ UNCHANGED <<nmessages, ncalls>>
           ELSE /\ ncalls' = Append(ncalls, [callable |-> tool_map[b.name],
                                            name |-> b.name, id |-> b.id])
                /\ \/ \E r \in ToolResults :
                        /\ nmessages' = Append(nmessages, ToolResultMessage(b.id, r))
                        /\ npc' = "chat"
                   \/ /\ npc' = "raised"
                      /\ UNCHANGED nmessages
    /\ UNCHANGED <<tool_map, tools, completion, nret, nreq>>
    /\ UNCHANGED <<codecVars, transportVars, colorVars, headerVars>>

\* run: case [TextBlock(...)]: return text_block_text
MatchText ==
    /\ npc = "match"
    /\ MatchCase(completion) = "text"
    /\ nret' = [kind |-> "str", value |-> completion[1].text]
    /\ npc' = "returned"
    /\ UNCHANGED <<tool_map, tools, nmessages, completion, ncalls, nreq>>
    /\ UNCHANGED <<codecVars, transportVars, colorVars, headerVars>>

\* run: case _: run = False; the loop ends and run returns without a value.
MatchOther ==
    /\ npc = "match"
    /\ MatchCase(completion) = "other"
    /\ nret' = [kind |-> "None"]
    /\ npc' = "returned"
    /\ UNCHANGED <<tool_map, tools, nmessages, completion, ncalls, nreq>>
    /\ UNCHANGED <<codecVars, transportVars, colorVars, headerVars>>

NextNucleus ==
    AddToolOption \/ RunStart \/ Chat \/ ChatRaises \/ MatchTool \/ MatchText \/ MatchOther

(***************************************************************************)
(* The transport as a state machine.  A thread is idle or inside one       *)
(* operation (Lifx.discover or a Light method), which packs a Message and  *)
(* calls Lifx.send; send runs statement by statement.                      *)
(***************************************************************************)
Threads == {1, 2}
\* The threads that call in Spec: the program is single-threaded.
Callers == {1}

MaxSockets == 3

\* What ifaddr.get_adapters() can return: lists of adapters, each a list of IPs.
Loopback == <<IPv4(<<127, 0, 0, 1>>, 8), IPv6Addr>>
AdaptersHome == <<Loopback, <<IPv4(<<192, 168, 1, 23>>, 24), IPv6Addr>>>>
AdaptersTwoLans ==
    <<Loopback, <<IPv4(<<192, 168, 1, 23>>, 24)>>, <<IPv4(<<192, 168, 37, 7>>, 20)>>>>
AdaptersVpn ==
    <<Loopback, <<IPv4(<<10, 8, 0, 2>>, 16)>>, <<IPv4(<<192, 168, 1, 23>>, 24)>>>>
AdaptersOther == <<Loopback, <<IPv4(<<19, 2, 0, 5>>, 8)>>>>
AdapterConfigs == {AdaptersHome, AdaptersTwoLans, AdaptersVpn, AdaptersOther}

\* The devices on the network and the datagrams that can arrive at a socket.
DeviceA == [host |-> "192.168.1.10", mac |-> MacA]
DeviceB == [host |-> "192.168.1.11", mac |-> MacB]
Devices == {DeviceA, DeviceB}
\* StateService: service 1, port 56700.
StateServiceReply(d) ==
    packed_msg(MessagePack(PackArgs(3, U32(0, 2), 0, 0, 0, 0, BytesTarget(d.mac),
                                    <<1, 124, 221, 0, 0>>)))
Incoming ==
    {[host |-> d.host, port |-> DEVICE_PORT, data |-> StateServiceReply(d)] : d \in Devices}
    \cup {[host |-> "192.168.1.99", port |-> 4000, data |-> <<1, 2, 3, 4, 5, 6, 7, 8, 9, 10>>]}

NoOp == [name |-> "none"]
NoResult == [kind |-> "none"]
Returned(v) == [kind |-> "returned", value |-> v]
RaisedOut(e) == [kind |-> "raised", exc |-> e]

InitTransport ==
    /\ adapters = AdaptersVpn
    /\ socks = <<>>
    /\ lights = <<>>
    /\ pc = [t \in Threads |-> "idle"]
    /\ op = [t \in Threads |-> NoOp]
    /\ msg = [t \in Threads |-> NoMessage]
    /\ sock = [t \in Threads |-> 0]
    /\ messages = [t \in Threads |-> <<>>]
    /\ broadcast_addresses = [t \in Threads |-> <<>>]
    /\ idx = [t \in Threads |-> 0]
    /\ log = [t \in Threads |-> <<>>]
    /\ result = [t \in Threads |-> NoResult]

Init == InitCodec /\ InitTransport /\ InitColor /\ InitHeader /\ InitNucleus

\* The environment: the machine's interfaces change.
InterfacesChange ==
    /\ \E a \in AdapterConfigs : a # adapters /\ adapters' = a
    /\ UNCHANGED <<socks, lights, pc, op, msg, sock, messages,
                   broadcast_addresses, idx, log, result>>
    /\ UNCHANGED <<codecVars, colorVars, headerVars, nucleusVars>>

\* A thread enters an operation: the Message is packed and Lifx.send is called.
Enter(t, o, m) ==
    /\ pc[t] = "idle"
    /\ Len(socks) < MaxSockets
    /\ op' = [op EXCEPT ![t] = o]
    /\ msg' = [msg EXCEPT ![t] = m]
    /\ pc' = [pc EXCEPT ![t] = "create_socket"]
    /\ log' = [log EXCEPT ![t] = <<>>]
    /\ result' = [result EXCEPT ![t] = NoResult]
    /\ messages' = [messages EXCEPT ![t] = <<>>]
    /\ broadcast_addresses' = [broadcast_addresses EXCEPT ![t] = <<>>]
    /\ idx' = [idx EXCEPT ![t] = 0]
    /\ sock' = [sock EXCEPT ![t] = 0]
    /\ UNCHANGED <<adapters, socks, lights>>
    /\ UNCHANGED <<codecVars, colorVars, headerVars, nucleusVars>>

\* Lifx.discover up to its call of send.
Discover(t) == Enter(t, [name |-> "discover"], DiscoverMessage)

\* Light.get_power up to its call of send.
GetPower(t) ==
    \E i \in 1..Len(lights), res \in Bits, ack \in Bits :
        Enter(t, [name |-> "get_power", light |-> lights[i], res |-> res, ack |-> ack],
              GetPowerMessage(lights[i], res, ack))

\* Light.set_power up to its call of send.
SetPowerOp(t) ==
    \E i \in 1..Len(lights), on \in BOOLEAN :
        Enter(t, [name |-> "set_power", light |-> lights[i], on |-> on],
              SetPowerMessage(lights[i], on))

\* The set_color calls of the apps: apps/text2lifximage.py, apps/text2LIFXcolor.py.
SetColorCalls ==
    {[hue |-> 12, saturation |-> Ratio(1, 1), brightness |-> Ratio(1, 1),
      kelvin |-> 3500, duration |-> U32(0, 0)],
     [hue |-> 360, saturation |-> Ratio(50, 100), brightness |-> Ratio(30, 100),
      kelvin |-> 2500, duration |-> U32(0, 1000)]}

\* Light.set_color up to its call of send.
SetColorOp(t) ==
    \E i \in 1..Len(lights), c \in SetColorCalls :
        Enter(t, [name |-> "set_color", light |-> lights[i], args |-> c],
              SetColorMessage(lights[i], c.hue, c.saturation, c.brightness,
                              c.kelvin, c.duration))

\* Light.get_color up to its call of send.
GetColor(t) ==
    \E i \in 1..Len(lights) :
        Enter(t, [name |-> "get_color", light |-> lights[i]],
              GetColorMessage(lights[i]))

\* An exception leaves send and the operation that called it.
Propagate(t, e) ==
    /\ pc' = [pc EXCEPT ![t] = "idle"]
    /\ result' = [result EXCEPT ![t] = RaisedOut(e)]

SockOpen(t) == socks[sock[t]].state = "open"
\* What a call did to its socket, in order (a record of the run, read by the
\* properties only): the operation, the socket and whether it was open, the
\* broadcast address of the iteration, and for sendto the destination and bytes.
Event(t, what, dest, data) ==
    [op |-> what, sock |-> sock[t], open |-> SockOpen(t),
     addr |-> broadcast_addresses[t][idx[t]], dest |-> dest, data |-> data]
NoDest == <<>>

\* send taking a socket the process already has instead of creating one.
CreateSocketShared(t) ==
    /\ pc[t] = "create_socket"
    /\ socks' = IF Len(socks) > 0 THEN socks
                ELSE Append(socks, [state |-> "open", owner |-> t])
    /\ sock' = [sock EXCEPT ![t] = 1]
    /\ messages' = [messages EXCEPT ![t] = <<>>]
    /\ pc' = [pc EXCEPT ![t] = "enumerate"]
    /\ UNCHANGED <<adapters, lights, op, msg, broadcast_addresses, idx, log, result>>
    /\ UNCHANGED <<codecVars, colorVars, headerVars, nucleusVars>>

\* send: sock = create_socket(); messages = []
CreateSocket(t) ==
    /\ pc[t] = "create_socket"
    /\ socks' = Append(socks, [state |-> "open", owner |-> t])
    /\ sock' = [sock EXCEPT ![t] = Len(socks) + 1]
    /\ messages' = [messages EXCEPT ![t] = <<>>]
    /\ pc' = [pc EXCEPT ![t] = "enumerate"]
    /\ UNCHANGED <<adapters, lights, op, msg, broadcast_addresses, idx, log, result>>
    /\ UNCHANGED <<codecVars, colorVars, headerVars, nucleusVars>>

\* send using the addresses of the interfaces the process started with.
EnumerateCached(t) ==
    /\ pc[t] = "enumerate"
    /\ broadcast_addresses' =
         [broadcast_addresses EXCEPT ![t] = get_broadcast_addresses(AdaptersVpn)]
    /\ idx' = [idx EXCEPT ![t] = 1]
    /\ pc' = [pc EXCEPT ![t] = "loop"]
    /\ UNCHANGED <<adapters, socks, lights, op, msg, sock, messages, log, result>>
    /\ UNCHANGED <<codecVars, colorVars, headerVars, nucleusVars>>

\* send: broadcast_addresses = get_broadcast_addresses()
Enumerate(t) ==
    /\ pc[t] = "enumerate"
    /\ broadcast_addresses' =
         [broadcast_addresses EXCEPT ![t] = get_broadcast_addresses(adapters)]
    /\ idx' = [idx EXCEPT ![t] = 1]
    /\ pc' = [pc EXCEPT ![t] = "loop"]
    /\ UNCHANGED <<adapters, socks, lights, op, msg, sock, messages, log, result>>
    /\ UNCHANGED <<codecVars, colorVars, headerVars, nucleusVars>>

\* send: an address that does not start with "192" is skipped (continue).
LoopSkip(t) ==
    /\ pc[t] = "loop"
    /\ idx[t] <= Len(broadcast_addresses[t])
    /\ ~Qualifies(broadcast_addresses[t][idx[t]])
    /\ idx' = [idx EXCEPT ![t] = idx[t] + 1]
    /\ UNCHANGED <<adapters, socks, lights, pc, op, msg, sock, messages,
                   broadcast_addresses, log, result>>
    /\ UNCHANGED <<codecVars, colorVars, headerVars, nucleusVars>>

\* send: sock.sendto(msg.packed_msg, (addr.exploded, DEVICE_PORT)); on a closed
\* socket sendto raises OSError.
SendTo(t) ==
    /\ pc[t] = "loop"
    /\ idx[t] <= Len(broadcast_addresses[t])
    /\ Qualifies(broadcast_addresses[t][idx[t]])
    /\ log' = [log EXCEPT ![t] = Append(log[t],
            Event(t, "sendto", <<exploded(broadcast_addresses[t][idx[t]]), DEVICE_PORT>>,
                  packed_msg(msg[t])))]
    /\ IF SockOpen(t)
       THEN /\ pc' = [pc EXCEPT ![t] = "read"]
            /\ result' = result
       ELSE Propagate(t, "OSError")
    /\ UNCHANGED <<adapters, socks, lights, op, msg, sock, messages,
                   broadcast_addresses, idx>>
    /\ UNCHANGED <<codecVars, colorVars, headerVars, nucleusVars>>

\* read: sock.recvfrom(128) raises: socket.timeout when nothing arrives within
\* SOCKET_TIMEOUT, OSError on a closed socket.  Nothing in send catches it.
RecvRaises(t) ==
    /\ pc[t] = "read"
    /\ log' = [log EXCEPT ![t] = Append(log[t], Event(t, "recvfrom", NoDest, <<>>))]
    /\ Propagate(t, IF SockOpen(t) THEN "socket.timeout" ELSE "OSError")
    /\ UNCHANGED <<adapters, socks, lights, op, msg, sock, messages,
                   broadcast_addresses, idx>>
    /\ UNCHANGED <<codecVars, colorVars, headerVars, nucleusVars>>

\* read draining the socket: every pending datagram becomes a response.
RecvDatagramAll(t) ==
    /\ pc[t] = "read"
    /\ SockOpen(t)
    /\ log' = [log EXCEPT ![t] = Append(log[t], Event(t, "recvfrom", NoDest, <<>>))]
    /\ messages' =
         [messages EXCEPT ![t] =
             messages[t]
             \o <<[host |-> DeviceA.host, port |-> DEVICE_PORT,
                    message |-> MessageUnpack(StateServiceReply(DeviceA))],
                  [host |-> DeviceB.host, port |-> DEVICE_PORT,
                    message |-> MessageUnpack(StateServiceReply(DeviceB))]>>]
    /\ pc' = [pc EXCEPT ![t] = "close"]
    /\ UNCHANGED <<adapters, socks, lights, op, msg, sock, broadcast_addresses, idx, result>>
    /\ UNCHANGED <<codecVars, colorVars, headerVars, nucleusVars>>

\* read: a datagram arrives; Message.unpack; send: messages.extend(response).
RecvDatagram(t) ==
    /\ pc[t] = "read"
    /\ SockOpen(t)
    /\ log' = [log EXCEPT ![t] = Append(log[t], Event(t, "recvfrom", NoDest, <<>>))]
    /\ \E d \in Incoming :
        LET data == Slice(d.data, 0, RecvBufSize)
        IN  IF UnpackRaises(data)
            THEN /\ Propagate(t, "IncompleteHeader")
                 /\ messages' = messages
            ELSE LET response ==
                        <<[host |-> d.host, port |-> d.port,
                           message |-> MessageUnpack(data)]>>
                 IN  /\ messages' =
                          [messages EXCEPT ![t] =
                              IF Len(response) > 0 THEN messages[t] \o response
                              ELSE messages[t]]
                     /\ pc' = [pc EXCEPT ![t] = "close"]
                     /\ result' = result
    /\ UNCHANGED <<adapters, socks, lights, op, msg, sock, broadcast_addresses, idx>>
    /\ UNCHANGED <<codecVars, colorVars, headerVars, nucleusVars>>

\* send: sock.close(), the last statement of the loop body.
Close(t) ==
    /\ pc[t] = "close"
    /\ log' = [log EXCEPT ![t] = Append(log[t], Event(t, "close", NoDest, <<>>))]
    /\ socks' = [socks EXCEPT ![sock[t]].state = "closed"]
    /\ idx' = [idx EXCEPT ![t] = idx[t] + 1]
    /\ pc' = [pc EXCEPT ![t] = "loop"]
    /\ UNCHANGED <<adapters, lights, op, msg, sock, messages, broadcast_addresses, result>>
    /\ UNCHANGED <<codecVars, colorVars, headerVars, nucleusVars>>

\* send: the loop is over; return messages.
SendReturn(t) ==
    /\ pc[t] = "loop"
    /\ idx[t] > Len(broadcast_addresses[t])
    /\ pc' = [pc EXCEPT ![t] = "send_returned"]
    /\ UNCHANGED <<adapters, socks, lights, op, msg, sock, messages,
                   broadcast_addresses, idx, log, result>>
    /\ UNCHANGED <<codecVars, colorVars, headerVars, nucleusVars>>

\* Lifx.discover after send: one Light per tuple; the caller keeps the list.
DiscoverReturn(t) ==
    /\ pc[t] = "send_returned"
    /\ op[t].name = "discover"
    /\ lights' = DiscoverLights(messages[t])
    /\ result' = [result EXCEPT ![t] = Returned(DiscoverLights(messages[t]))]
    /\ pc' = [pc EXCEPT ![t] = "idle"]
    /\ UNCHANGED <<adapters, socks, op, msg, sock, messages, broadcast_addresses, idx, log>>
    /\ UNCHANGED <<codecVars, colorVars, headerVars, nucleusVars>>

\* A Light method that takes its host from the response it got.
LightReturnRehost(t) ==
    /\ pc[t] = "send_returned"
    /\ op[t].name # "discover"
    /\ result' = [result EXCEPT ![t] = Returned(messages[t])]
    /\ lights' = [i \in DOMAIN lights |->
                    IF lights[i] = op[t].light /\ Len(messages[t]) > 0
                    THEN [lights[i] EXCEPT !.host = messages[t][1].host, !.port = messages[t][1].port]
                    ELSE [lights[i] EXCEPT !.source = U32(0, 0)]]
    /\ pc' = [pc EXCEPT ![t] = "idle"]
    /\ UNCHANGED <<adapters, socks, op, msg, sock, messages,
                   broadcast_addresses, idx, log>>
    /\ UNCHANGED <<codecVars, colorVars, headerVars, nucleusVars>>

\* The Light methods after send: return messages.
LightReturn(t) ==
    /\ pc[t] = "send_returned"
    /\ op[t].name # "discover"
    /\ result' = [result EXCEPT ![t] = Returned(messages[t])]
    /\ pc' = [pc EXCEPT ![t] = "idle"]
    /\ UNCHANGED <<adapters, socks, lights, op, msg, sock, messages,
                   broadcast_addresses, idx, log>>
    /\ UNCHANGED <<codecVars, colorVars, headerVars, nucleusVars>>

\* A frame of send holds socket s.
Referenced(s) == \E t \in Threads : pc[t] # "idle" /\ sock[t] = s

\* The interpreter finalises a socket object nothing refers to any more, at a
\* time of its choosing, which closes it.
Finalize ==
    /\ \E s \in 1..Len(socks) :
        /\ socks[s].state = "open"
        /\ ~Referenced(s)
        /\ socks' = [socks EXCEPT ![s].state = "closed"]
    /\ UNCHANGED <<adapters, lights, pc, op, msg, sock, messages,
                   broadcast_addresses, idx, log, result>>
    /\ UNCHANGED <<codecVars, colorVars, headerVars, nucleusVars>>

ThreadStep(t) ==
    \/ Discover(t) \/ GetPower(t) \/ SetPowerOp(t) \/ GetColor(t) \/ SetColorOp(t)
    \/ CreateSocket(t) \/ Enumerate(t) \/ LoopSkip(t) \/ SendTo(t)
    \/ RecvRaises(t) \/ RecvDatagram(t) \/ Close(t) \/ SendReturn(t)
    \/ DiscoverReturn(t) \/ LightReturn(t)

Next == (\E t \in Callers : ThreadStep(t)) \/ InterfacesChange \/ Finalize

Spec == Init /\ [][Next]_vars

SpecCodec == Init /\ [][NextCodec]_vars

SpecColor == Init /\ [][NextColor]_vars

SpecHeader == Init /\ [][NextHeader]_vars

SpecNucleus == Init /\ [][NextNucleus]_vars

\* The Messages the threads hand to Lifx.send.
SendMessages ==
    {DiscoverMessage, GetColorMessage(Light(U32(0, 2), MacA, "192.168.1.10", DEVICE_PORT))}

\* A thread calls Lifx.send(msg) itself.
SendCall(t) == \E m \in SendMessages : Enter(t, [name |-> "send"], m)

\* Two threads call Lifx.send concurrently.
SendStep(t) ==
    \/ SendCall(t)
    \/ CreateSocket(t) \/ Enumerate(t) \/ LoopSkip(t) \/ SendTo(t)
    \/ RecvRaises(t) \/ RecvDatagram(t) \/ Close(t) \/ SendReturn(t)
    \/ LightReturn(t)

NextThreads == (\E t \in Threads : SendStep(t)) \/ Finalize

SpecThreads == Init /\ [][NextThreads]_vars


(***************************************************************************)
(* Properties of the codec, checked under SpecCodec.                       *)
(***************************************************************************)
RECURSIVE DecVal(_)
\* The number a string of decimal digits denotes.
DecVal(s) ==
    IF Len(s) = 0 THEN 0
    ELSE 10 * DecVal(SubSeq(s, 1, Len(s) - 1))
         + (CHOOSE d \in 0..9 : Digits[d + 1] = s[Len(s)])

\* The unpacked Message came from the whole packed message.
UnpackedWhole == cpc = "unpacked" /\ cdata = packed_msg(cmsg)

\* What the target argument reads back as.
TargetBytesOf(t) == IF t.kind = "int" THEN Zeros(6) ELSE t.val

C6_SizeField ==
    /\ cpc \in {"packed", "have_data", "unpacked"}
         => size(cmsg) = 36 + Len(cargs.packet_data)
    /\ UnpackedWhole => size(cum) = 36 + Len(cargs.packet_data)

C6_Witness == UnpackedWhole /\ Len(cargs.packet_data) = 2 /\ size(cum) = 38

\* C7: unpack raises IncompleteHeader exactly when the input has fewer than 36
\* bytes; otherwise the header is the first 36 bytes and the payload the rest.
C7_UnpackBoundary ==
    /\ cexc.type = "IncompleteHeader" => Len(cdata) < 36
    /\ cpc = "unpacked" =>
        /\ Len(cdata) >= 36
        /\ cum.header = SubSeq(cdata, 1, 36)
        /\ cum.packet_data = SubSeq(cdata, 37, Len(cdata))
        /\ cum.header \o cum.packet_data = cdata

C7_Witness == cpc = "raised" /\ cexc.type = "IncompleteHeader" /\ Len(cdata) = 10

\* C8: asking a Message whose pkt_type is not in the registry for its packet
\* raises UnsupportedPacketType carrying the pkt_type and leaves the Message
\* as it was, so that a repeated request does the same.
C8_UnsupportedLeavesMessage ==
    [][(cpc = "unpacked" /\ nacc' = nacc + 1 /\ pkt_type(cum) \notin DOMAIN PACKETS)
        => /\ cexc'.type = "UnsupportedPacketType"
           /\ DecVal(cexc'.arg) = pkt_type(cum)
           /\ cum' = cum
           /\ cum'.packet_ = NoPacket
           /\ size(cum') = size(cum) /\ pkt_type(cum') = pkt_type(cum)
           /\ source(cum') = source(cum) /\ target_hex(cum') = target_hex(cum)
           /\ sequence(cum') = sequence(cum) /\ tagged(cum') = tagged(cum)
           /\ response_required(cum') = response_required(cum)
           /\ ack_required(cum') = ack_required(cum)]_vars

C8_Witness ==
    /\ cpc = "unpacked" /\ nacc = 2 /\ pkt_type(cum) = 999
    /\ cexc.type = "UnsupportedPacketType"
    /\ Len(cum.packet_data) > 0

(***************************************************************************)
(* Properties of the transport, checked under Spec.                        *)
(***************************************************************************)
InCall(t) == op[t] # NoOp
Events(t, what) == {i \in DOMAIN log[t] : log[t][i].op = what}
EventsAt(t, what, addr) == {i \in Events(t, what) : log[t][i].addr = addr}
\* The iteration of send for the address at index i is over.
IterationOver(t, i) == idx[t] > i \/ pc[t] \in {"send_returned", "idle"}
Expected(t) == IF response_required(msg[t]) THEN 1 ELSE 0

\* C1: for each address the message is sent to, send receives exactly once
\* if the message's response_required bit is set and never if it is clear; a
\* message packed with res=0 makes send return [] without a receive.
C1_ReceiveIffResponseRequired ==
    \A t \in Threads : InCall(t) =>
        /\ \A i \in DOMAIN broadcast_addresses[t] :
            LET a == broadcast_addresses[t][i]
                n == Cardinality(EventsAt(t, "recvfrom", a))
            IN  /\ n <= Expected(t)
                /\ (EventsAt(t, "sendto", a) # {} /\ IterationOver(t, i)
                     /\ result[t].kind # "raised") => n = Expected(t)
        /\ (~response_required(msg[t]) /\ result[t].kind = "returned"
             /\ op[t].name # "discover") => result[t].value = <<>>

\* C2: a receive timeout does not make send raise: the address yields no
\* response and the call goes on to return what the other addresses gave.
C2_TimeoutDoesNotRaise ==
    \A t \in Threads :
        ~(result[t].kind = "raised" /\ result[t].exc = "socket.timeout")

\* C3: every sendto and recvfrom is on an open socket, and once send's loop
\* is over the message has been sent to every qualifying address.
C3_OperationsOnOpenSocket ==
    \A t \in Threads :
        /\ \A i \in Events(t, "sendto") \cup Events(t, "recvfrom") : log[t][i].open
        /\ (InCall(t) /\ pc[t] \in {"send_returned", "idle"}
             /\ ~(result[t].kind = "raised"
                  /\ result[t].exc \in {"socket.timeout", "IncompleteHeader"}))
            => \A i \in DOMAIN broadcast_addresses[t] :
                 Qualifies(broadcast_addresses[t][i])
                   => \E e \in EventsAt(t, "sendto", broadcast_addresses[t][i]) :
                        log[t][e].open

\* C4: a socket is open only while the call of send that opened it is running.
C4_NoSocketOutlivesItsCall ==
    \A s \in 1..Len(socks) :
        socks[s].state = "open"
          => /\ sock[socks[s].owner] = s
             /\ pc[socks[s].owner] \notin {"idle", "send_returned"}

\* C9: discover sends one Message only, the tagged GetService request with
\* res=1, ack=0, sequence 0, source 2, an all-zero target and no payload, and
\* returns one Light per response of send, in order, with the response's
\* 6-byte target as hardware id and its sender as host.
C9_Discover ==
    \A t \in Threads : op[t].name = "discover" =>
        /\ pkt_type(msg[t]) = 2
        /\ tagged(msg[t]) /\ response_required(msg[t]) /\ ~ack_required(msg[t])
        /\ sequence(msg[t]) = 0
        /\ source(msg[t]) = U32(0, 2)
        /\ target_hex(msg[t]) = <<0, 0, 0, 0, 0, 0>>
        /\ msg[t].packet_data = <<>>
        /\ size(msg[t]) = 36
        /\ Len(packed_msg(msg[t])) = 36
        /\ \A i \in Events(t, "sendto") : log[t][i].data = packed_msg(msg[t])
        /\ result[t].kind = "returned" =>
            /\ Len(result[t].value) = Len(messages[t])
            /\ \A i \in DOMAIN messages[t] :
                /\ result[t].value[i].target_hex = SubSeq(messages[t][i].message.header, 9, 14)
                /\ result[t].value[i].host = messages[t][i].host

C9_Witness ==
    \E t \in Threads :
        /\ op[t].name = "discover"
        /\ result[t].kind = "returned"
        /\ Len(result[t].value) = 1
        /\ result[t].value[1].target_hex = MacB
        /\ result[t].value[1].host = DeviceB.host

\* C10: the Message get_color sends has pkt_type 101, no payload, tagged=0,
\* the light's hardware id as target and the response_required bit set.
C10_GetColorMessage ==
    \A t \in Threads : op[t].name = "get_color" =>
        /\ pkt_type(msg[t]) = 101
        /\ msg[t].packet_data = <<>>
        /\ ~tagged(msg[t])
        /\ target_hex(msg[t]) = op[t].light.target_hex
        /\ response_required(msg[t])

(***************************************************************************)
(* Properties of the color functions, checked under SpecColor.             *)
(***************************************************************************)
Abs(x) == IF x < 0 THEN -x ELSE x

\* v is an integer nearest to n / d.
NearestTo(v, n, d) == 2 * Abs(v * d - n) <= d

\* The fields of the set_color payload.
PayloadHue(p) == UnpackH(Slice(p, 1, 3))
PayloadSaturation(p) == UnpackH(Slice(p, 3, 5))
PayloadBrightness(p) == UnpackH(Slice(p, 5, 7))
PayloadKelvin(p) == UnpackH(Slice(p, 7, 9))
PayloadDuration(p) == UnpackI(Slice(p, 9, 13))

\* C11: for every integer hue from 0 to 360 degrees the hue field of the
\* set_color payload is round(65536 * hue / 360) mod 65536.
C11_HueFieldIsRounded ==
    kpc = "set_color" =>
        \E v \in 0..65536 :
            /\ NearestTo(v, 65536 * kargs.hue, 360)
            /\ PayloadHue(kmsg.packet_data) = v % 65536

\* C12: the set_color payload is 13 bytes: a zero byte, the hue field, the
\* saturation and brightness fields round(65535 * unit), kelvin (all
\* little-endian 16-bit) and the duration (little-endian 32-bit, 0 by default);
\* the Message has pkt_type 102, tagged=0 and the light's hardware id as target.
C12_SetColorPayload ==
    kpc = "set_color" =>
        LET p == kmsg.packet_data
        IN  /\ Len(p) = 13
            /\ p[1] = 0
            /\ p = <<0>> \o PackH(PayloadHue(p)) \o PackH(PayloadSaturation(p))
                   \o PackH(PayloadBrightness(p)) \o PackH(kargs.kelvin)
                   \o PackI(kargs.duration)
            /\ PayloadHue(p) \in 0..65535
            /\ NearestTo(PayloadSaturation(p), 65535 * kargs.saturation.num,
                         kargs.saturation.den)
            /\ NearestTo(PayloadBrightness(p), 65535 * kargs.brightness.num,
                         kargs.brightness.den)
            /\ PayloadKelvin(p) = kargs.kelvin
            /\ PayloadDuration(p) = kargs.duration
            /\ pkt_type(kmsg) = 102
            /\ ~tagged(kmsg)
            /\ target_hex(kmsg) = kargs.light.target_hex
            /\ size(kmsg) = 49

C12_Witness ==
    /\ kpc = "set_color"
    /\ kargs.hue = 120
    /\ kargs.saturation = Ratio(30, 100)
    /\ kargs.duration = U32(0, 0)
    /\ kargs.light.target_hex = MacB
    /\ kmsg.packet_data = <<0, 85, 85, 204, 76, 50, 179, 172, 13, 0, 0, 0, 0>>

(***************************************************************************)
(* Properties of the Light methods, checked under Spec.                    *)
(***************************************************************************)
\* C13: the Message set_power(on) sends has pkt_type 21, tagged=0, the light's
\* hardware id as target, a 2-byte payload (65535 for on, 0 for off, as a
\* little-endian 16-bit integer) and the size field 38.
C13_SetPowerMessage ==
    \A t \in Threads : op[t].name = "set_power" =>
        /\ pkt_type(msg[t]) = 21
        /\ ~tagged(msg[t])
        /\ target_hex(msg[t]) = op[t].light.target_hex
        /\ msg[t].packet_data = (IF op[t].on THEN <<255, 255>> ELSE <<0, 0>>)
        /\ Len(msg[t].packet_data) = 2
        /\ size(msg[t]) = 38
        /\ \A i \in Events(t, "sendto") : log[t][i].data = packed_msg(msg[t])

C13_Witness ==
    \E t \in Threads :
        /\ op[t].name = "set_power"
        /\ op[t].on
        /\ op[t].light.target_hex = MacA
        /\ Events(t, "sendto") # {}

\* The label field encode_color_state is said to write: the UTF-8 bytes cut to
\* at most 31 and zero-padded to 32.
LabelField(label) == LJust(Slice(Utf8Encode(label), 0, 31), 32)

\* C14: encode_color_state returns exactly 52 bytes: hue, saturation,
\* brightness and kelvin (little-endian 16-bit), 2 zero bytes, power (65535 or
\* 0), the 32-byte label field whose last byte is zero, and 8 zero bytes.
C14_EncodeLayout ==
    kpc \in {"encoded", "encoded_decoded"} =>
        /\ Len(kbuf) = 52
        /\ kbuf = PackH(kargs.hue) \o PackH(kargs.saturation)
                  \o PackH(kargs.brightness) \o PackH(kargs.kelvin) \o Zeros(2)
                  \o PackH(IF kargs.power THEN 65535 ELSE 0)
                  \o LabelField(kargs.label) \o Zeros(8)
        /\ LabelField(kargs.label)[32] = 0

\* C15: decode_color_state(encode_color_state(...)) succeeds and gives back
\* hue, saturation, brightness and kelvin, the power as 65535 or 0, and the
\* label (its first 31 UTF-8 bytes when it is longer).
C15_EncodeDecodeRoundTrip ==
    kpc = "encoded_decoded" =>
        /\ kdec.exc = "None"
        /\ kdec.state.hue = kargs.hue
        /\ kdec.state.saturation = kargs.saturation
        /\ kdec.state.brightness = kargs.brightness
        /\ kdec.state.kelvin = kargs.kelvin
        /\ kdec.state.power = (IF kargs.power THEN 65535 ELSE 0)
        /\ Utf8Encode(kdec.state.label) = Slice(Utf8Encode(kargs.label), 0, 31)

\* C16: decode_color_state raises its "not enough data" error for every buffer
\* shorter than 52 bytes and returns no state then; a buffer of 52 bytes or
\* more never raises that error.
C16_DecodeShortBuffer ==
    kpc \in {"encoded_decoded", "received_decoded"} =>
        /\ Len(kbuf) < 52 => (kdec.exc = "ValueError" /\ kdec.state = NoState)
        /\ Len(kbuf) >= 52 => kdec.exc # "ValueError"
        /\ kdec.exc # "None" => kdec.state = NoState

C16_Witness ==
    /\ kpc = "received_decoded"
    /\ Len(kbuf) = 51
    /\ kdec.exc = "ValueError"
    /\ kdec.state = NoState

\* C17: normalize_color returns hue = round(hue * 360 / 65535), saturation and
\* brightness = round(x * 100 / 65535), power = (power # 0), kelvin and label
\* unchanged; raw hue 32768 gives 180 and raw saturation 65535 gives 100; the
\* results lie in 0..360 and 0..100.
C17_Normalize ==
    kpc = "normalized" =>
        /\ NearestTo(knorm.hue, kargs.hue * 360, 65535)
        /\ NearestTo(knorm.saturation, kargs.saturation * 100, 65535)
        /\ NearestTo(knorm.brightness, kargs.brightness * 100, 65535)
        /\ knorm.power = (kargs.power # 0)
        /\ knorm.kelvin = kargs.kelvin
        /\ knorm.label = kargs.label
        /\ knorm.hue \in 0..360
        /\ knorm.saturation \in 0..100
        /\ knorm.brightness \in 0..100
        /\ kargs.hue = 32768 => knorm.hue = 180
        /\ kargs.saturation = 65535 => knorm.saturation = 100

C17_Witness ==
    /\ kpc = "normalized"
    /\ kargs.hue = 32768
    /\ kargs.power = 65535
    /\ knorm.hue = 180
    /\ knorm.saturation = 50
    /\ knorm.brightness = 50
    /\ knorm.power = TRUE

(***************************************************************************)
(* Properties of the header, checked under SpecCodec and SpecHeader.       *)
(***************************************************************************)
\* C18: in a packed header bytes 0-1 hold 36 + the payload length, bytes 2-3
\* hold origin (0, bits 14-15), tagged (bit 13), addressable (1, bit 12) and
\* protocol (1024, bits 0-11), bytes 4-7 hold the source; the accessors give
\* addressable true, protocol 1024, and tagged true exactly when tagged = 1.
C18_FrameHeader ==
    cpc \in {"packed", "have_data", "unpacked"} \/ (cpc = "raised" /\ cmsg # NoMessage) =>
        LET h == cmsg.header
        IN  /\ Len(h) = 36
            /\ UnpackH(Slice(h, 0, 2)) = 36 + Len(cargs.packet_data)
            /\ UnpackH(Slice(h, 2, 4)) = 0 * 16384 + cargs.tagged * 8192 + 1 * 4096 + 1024
            /\ UnpackI(Slice(h, 4, 8)) = cargs.source
            /\ addressable(cmsg)
            /\ protocol(cmsg) = 1024
            /\ tagged(cmsg) = (cargs.tagged = 1)

C18_Witness ==
    /\ cpc = "packed"
    /\ cargs.tagged = 1
    /\ cargs.source = U32(65535, 65535)
    /\ Len(cargs.packet_data) = 2
    /\ Slice(cmsg.header, 0, 8) = <<38, 0, 0, 52, 255, 255, 255, 255>>
    /\ tagged(cmsg)

\* Every bit of the header but the flipped one reads as before.
SameButFlipped ==
    \A i \in 0..35, k \in 0..7 :
        BitOf(hdr.header[i + 1], k) = BitOf(hprev.header[i + 1], k)
            <=> [byte |-> i, bit |-> k] # hbit

\* C19: response_required is bit 0 of byte 22 of the header and ack_required
\* bit 1 of byte 22; flipping bit 0 changes response_required only, flipping
\* bit 1 changes ack_required only, and no other bit of the header changes
\* either; the res and ack given to pack read back from the packed header.
C19_FlagBits ==
    /\ hpc \in {"unpacked", "flipped"} =>
        /\ response_required(hdr) = (BitOf(hdr.header[23], 0) = 1)
        /\ ack_required(hdr) = (BitOf(hdr.header[23], 1) = 1)
    /\ hpc = "unpacked" /\ hargs # NoArgs =>
        /\ response_required(hdr) = (hargs.res = 1)
        /\ ack_required(hdr) = (hargs.ack = 1)
    /\ hpc = "flipped" =>
        /\ SameButFlipped
        /\ response_required(hdr) # response_required(hprev)
             <=> hbit = [byte |-> 22, bit |-> 0]
        /\ ack_required(hdr) # ack_required(hprev)
             <=> hbit = [byte |-> 22, bit |-> 1]

C19_Witness ==
    /\ hpc = "flipped"
    /\ hbit = [byte |-> 22, bit |-> 1]
    /\ response_required(hprev) /\ response_required(hdr)
    /\ ~ack_required(hprev) /\ ack_required(hdr)
    /\ hargs # NoArgs
    /\ hargs.res = 1 /\ hargs.ack = 0
    /\ pkt_type(hdr) = 21

(***************************************************************************)
(* Properties of concurrent calls of Lifx.send, checked under SpecThreads. *)
(***************************************************************************)
\* The call of thread t holds a socket.
HoldsSocket(t) == pc[t] \notin {"idle", "create_socket"}

\* The recvfrom calls of thread t that returned a datagram: those on an open
\* socket that did not end the call with socket.timeout.
Received(t) ==
    {i \in Events(t, "recvfrom") :
        /\ log[t][i].open
        /\ ~(i = Len(log[t]) /\ result[t] = RaisedOut("socket.timeout"))}

\* C20: when two threads call Lifx.send concurrently, each call sends on,
\* receives from and closes only the socket it opened, no two running calls
\* hold the same socket, and every response in a call's list was received on
\* its own socket.
C20_CallsShareNothing ==
    \A t \in Threads :
        /\ HoldsSocket(t) =>
            /\ sock[t] \in DOMAIN socks
            /\ socks[sock[t]].owner = t
            /\ \A u \in Threads \ {t} : HoldsSocket(u) => sock[u] # sock[t]
            /\ \A i \in DOMAIN log[t] : log[t][i].sock = sock[t]
        /\ \A i \in DOMAIN log[t] :
            /\ socks[log[t][i].sock].owner = t
            /\ \A u \in Threads \ {t} : HoldsSocket(u) => sock[u] # log[t][i].sock
        /\ Len(messages[t]) <= Cardinality(Received(t))
        /\ \A i \in DOMAIN messages[t] :
            \E d \in Incoming :
                /\ messages[t][i].host = d.host
                /\ messages[t][i].message = MessageUnpack(d.data)

C20_Witness ==
    /\ pc[1] = "close" /\ pc[2] = "close"
    /\ sock[1] # sock[2]
    /\ Len(messages[1]) = 1 /\ Len(messages[2]) = 1
    /\ messages[1][1].host # messages[2][1].host
    /\ Events(1, "sendto") # {} /\ Events(2, "sendto") # {}

(***************************************************************************)
(* Further properties of the codec, checked under SpecCodec.               *)
(***************************************************************************)
\* C21: every Message, a packed one or one unpacked from received bytes of
\* length at least 36, has size = 36 + the length of its payload bytes.
C21_SizeMatchesPayload ==
    /\ cmsg # NoMessage => size(cmsg) = 36 + Len(cmsg.packet_data)
    /\ cpc = "unpacked" => size(cum) = 36 + Len(cum.packet_data)

\* C22: in a packed header the frame address is bytes 8-23: the target (six
\* zero bytes for the sentinel 0), eight zero bytes, the flags byte
\* reserved|ack|res and the sequence; the protocol header is eight zero
\* bytes, pkt_type (little-endian 16-bit) and two zero bytes; the header is 36
\* bytes, pkt_type reads back from bytes 32-33 and sequence from byte 23.
C22_AddressAndProtocolHeader ==
    cmsg # NoMessage =>
        LET h == cmsg.header
            frame_address == Slice(h, 8, 24)
            protocol_header == Slice(h, 24, 36)
        IN  /\ Len(h) = 36
            /\ Len(frame_address) = 16
            /\ Slice(frame_address, 0, 6) = TargetBytesOf(cargs.target)
            /\ Slice(frame_address, 6, 14) = Zeros(8)
            /\ frame_address[15] = 2 * cargs.ack + cargs.res
            /\ frame_address[16] = cargs.sequence
            /\ Len(protocol_header) = 12
            /\ Slice(protocol_header, 0, 8) = Zeros(8)
            /\ Slice(protocol_header, 8, 10) = PackH(cargs.pkt_type)
            /\ Slice(protocol_header, 10, 12) = Zeros(2)
            /\ pkt_type(cmsg) = cargs.pkt_type
            /\ UnpackH(Slice(h, 32, 34)) = cargs.pkt_type
            /\ sequence(cmsg) = cargs.sequence
            /\ h[24] = cargs.sequence

C22_Witness ==
    /\ cpc = "packed"
    /\ cargs.target = IntTarget(0)
    /\ cargs.pkt_type = 999
    /\ cargs.sequence = 255
    /\ cargs.ack = 1 /\ cargs.res = 0
    /\ Slice(cmsg.header, 8, 36) =
         Zeros(14) \o <<2, 255>> \o Zeros(8) \o <<231, 3, 0, 0>>

(***************************************************************************)
(* Further properties of the transport, checked under Spec.                *)
(***************************************************************************)
\* The sendto calls of thread t for the address at index j that reached the network.
Transmitted(t, j) ==
    {e \in EventsAt(t, "sendto", broadcast_addresses[t][j]) : log[t][e].open}

\* C23: send transmits the packed message exactly once to port 56700 of each
\* enumerated address that starts with "192", nothing to any other address,
\* and never twice to one address, whether or not a reply arrives.
C23_SentOnceToEachQualifying ==
    \A t \in Threads : InCall(t) =>
        /\ \A e \in Events(t, "sendto") :
            /\ Qualifies(log[t][e].addr)
            /\ log[t][e].dest = <<exploded(log[t][e].addr), 56700>>
            /\ log[t][e].data = packed_msg(msg[t])
        /\ \A j \in DOMAIN broadcast_addresses[t] :
            /\ Cardinality(EventsAt(t, "sendto", broadcast_addresses[t][j])) <= 1
            /\ (pc[t] \in {"send_returned", "idle"} /\ Qualifies(broadcast_addresses[t][j]))
                 => Cardinality(Transmitted(t, j)) = 1

\* The last entry of a sequence.
Last(s) == s[Len(s)]

\* C24: each call of send enumerates the broadcast addresses anew from the
\* interfaces present at that call: the list a call iterates is set by its
\* own enumeration only, nothing is sent before it, and every sendto goes to
\* an address of that list.
C24_EnumeratesAnew ==
    [][\A t \in Threads :
        /\ (pc[t] = "enumerate" /\ pc'[t] # "enumerate")
             => broadcast_addresses'[t] = get_broadcast_addresses(adapters)
        /\ broadcast_addresses'[t] # broadcast_addresses[t]
             => \/ pc[t] = "enumerate"
                \/ (pc[t] = "idle" /\ broadcast_addresses'[t] = <<>>)
        /\ (Len(log'[t]) = Len(log[t]) + 1 /\ Last(log'[t]).op = "sendto")
             => \E j \in DOMAIN broadcast_addresses[t] :
                    Last(log'[t]).addr = broadcast_addresses[t][j]]_vars

C24_Witness ==
    \E t \in Threads :
        /\ lights # <<>>
        /\ adapters = AdaptersOther
        /\ pc[t] = "send_returned"
        /\ broadcast_addresses[t] = get_broadcast_addresses(AdaptersOther)
        /\ Events(t, "sendto") = {}

LightOps == {"get_power", "set_power", "get_color", "set_color"}

\* C27: no Light operation, returning or raising, changes a Light's hardware
\* id, host, port or source: the Lights change only when discover returns,
\* and the Light an operation runs on is the same throughout.
C27_LightsNeverMutated ==
    [][/\ lights' # lights
            => \E t \in Threads :
                  /\ op[t].name = "discover"
                  /\ pc[t] = "send_returned"
                  /\ lights' = DiscoverLights(messages[t])
       /\ \A t \in Threads :
            (op[t].name \in LightOps /\ pc[t] # "idle")
                => /\ op'[t] = op[t]
                   /\ \E i \in DOMAIN lights' : lights'[i] = op[t].light]_vars

C27_Witness ==
    \E t \in Threads :
        /\ op[t].name = "set_color"
        /\ pc[t] = "idle"
        /\ result[t].kind = "raised"
        /\ lights = <<Light(U32(0, 2), MacA, DeviceA.host, DEVICE_PORT)>>
        /\ op[t].light = lights[1]

C25_PacketCached ==
    [][nacc' = nacc + 1 =>
        /\ cum'.header = cum.header
        /\ cum'.packet_data = cum.packet_data
        /\ pkt_type(cum) \in DOMAIN PACKETS =>
            /\ cexc' = NoExc
            /\ cret' = Construct(PACKETS[pkt_type(cum)], cum.packet_data)
            /\ cum'.packet_ = cret'
            /\ cum.packet_ # NoPacket => (cret' = cum.packet_ /\ cum' = cum)
            /\ nacc >= 1 => (cum.packet_ # NoPacket /\ cret' = cret)]_vars

C25_Witness ==
    /\ nacc = 2
    /\ pkt_type(cum) = 21
    /\ cexc = NoExc
    /\ cret = [cls |-> "SetPower", level |-> <<255, 255>>]
    /\ cum.packet_ = cret

(***************************************************************************)
(* The human units, checked under SpecColor.                               *)
(***************************************************************************)
\* The human values h in 0..scale that can have the raw value v: round(h *
\* 65535 / scale) = v puts h within 1/2 * scale / 65535 of v * scale / 65535,
\* so h is the integer below that quotient or the one above.
HumanValuesOf(v, scale) ==
    {h \in {(v * scale) \div 65535, (v * scale) \div 65535 + 1} :
        h <= scale /\ NearestTo(v, h * 65535, scale)}

\* C26: for every hue h in 0..360 (saturation and brightness in 0..100) the
\* raw value round(h * 65535 / 360) (round(h * 65535 / 100)) is normalized to
\* a value within 1 of h.
C26_NormalizeWithinOne ==
    kpc = "normalized" =>
        /\ \A h \in HumanValuesOf(kargs.hue, 360) : Abs(knorm.hue - h) <= 1
        /\ \A h \in HumanValuesOf(kargs.saturation, 100) : Abs(knorm.saturation - h) <= 1
        /\ \A h \in HumanValuesOf(kargs.brightness, 100) : Abs(knorm.brightness - h) <= 1

C26_Witness ==
    /\ kpc = "normalized"
    /\ kargs.hue = PyRound(271 * 65535, 360)
    /\ HumanValuesOf(kargs.hue, 360) = {271}
    /\ knorm.hue = 271
    /\ kargs.power = 0

(***************************************************************************)
(* Properties of the agent loop, checked under SpecNucleus.                *)
(***************************************************************************)
\* C28: whenever run returns, it returns the text of the last completion,
\* for a lone text block and for every content shape that ends the loop
\* without being handled.
C28_ReturnsFinalText ==
    npc = "returned" =>
        /\ nret.kind = "str"
        /\ MatchCase(completion) = "text" => nret.value = completion[1].text
        /\ completion = Last(nmessages).content

\* user, assistant, user, ... from the seed on.
Alternates(ms) ==
    \A i \in DOMAIN ms : ms[i].role = (IF i % 2 = 1 THEN "user" ELSE "assistant")

ToolCases == {"text_tool", "tool"}

\* C30: when run is about to issue a chat request, the message list ends
\* with a user entry, and every completion so far was a tool-use one that was
\* answered by exactly one call, of the tool registered under the block's
\* name, and by exactly one user message holding a tool_result with the
\* block's id; the list alternates user and assistant entries from the seed
\* on, and no completion ever gets more than one call.
C30_ToolTurns ==
    /\ npc # "setup" =>
        /\ nmessages[1] = SeedPrompt[1]
        /\ Alternates(nmessages)
        /\ 2 * Len(ncalls) + 1 <= Len(nmessages) + 1
    /\ npc = "chat" =>
        /\ Last(nmessages).role = "user"
        /\ Len(nmessages) = 2 * Len(ncalls) + 1
        /\ \A k \in 1..Len(ncalls) :
            LET a == nmessages[2 * k]
                u == nmessages[2 * k + 1]
                b == ToolBlock(a.content)
            IN  /\ MatchCase(a.content) \in ToolCases
                /\ ncalls[k] = [callable |-> tool_map[b.name], name |-> b.name, id |-> b.id]
                /\ Len(u.content) = 1
                /\ u.content[1].type = "tool_result"
                /\ u.content[1].tool_use_id = b.id

C30_Witness ==
    /\ npc = "chat"
    /\ Len(ncalls) = 2
    /\ tools = <<"update_light", "update_light">>
    /\ ncalls[1] = [callable |-> "update_light_v2", name |-> "update_light", id |-> "toolu_2"]
    /\ ncalls[2].id = "toolu_1"
    /\ MatchCase(nmessages[2].content) = "text_tool"
    /\ MatchCase(nmessages[4].content) = "tool"
    /\ nmessages[5] = ToolResultMessage("toolu_1", <<"o", "k">>)

====
